---- MODULE Spec2Model ----
(***************************************************************************)
(* Model of cortex-api's identity and trust core: the token codec, the      *)
(* token / agent repositories, the auth service, the authentication        *)
(* middleware and the finding fingerprint calculator.                       *)
(***************************************************************************)
EXTENDS Integers, Sequences, FiniteSets, TLC

VARIABLES tokens, agents, now, res, mw, findings, fp, sessions, boot, assets, history

vars == <<tokens, agents, now, res, mw, findings, fp, sessions, boot, assets, history>>

(***************************************************************************)
(* Bounds of the model.                                                    *)
(***************************************************************************)
MaxTokens == 2
MaxAgents == 1
MaxFindings == 2

None == "none"

(***************************************************************************)
(* Errors.                                                                 *)
(***************************************************************************)
Nil == "nil"
ErrUnauthenticated == "unauthenticated"
ErrNotFound == "not found"
ErrUniqueViolation == "unique violation"
ErrInvalidTokenString == "invalid token string"
ErrPg == "pg error"

(***************************************************************************)
(* Token codec.  A string is a sequence of one-character strings.          *)
(***************************************************************************)
Sep == "."

\* strings.Split(s, "."): the parts between separators; "" gives one empty part
RECURSIVE Split(_)
Split(s) ==
    IF s = <<>> THEN << <<>> >>
    ELSE LET rest == Split(Tail(s))
         IN  IF Head(s) = Sep
             THEN << <<>> >> \o rest
             ELSE << <<Head(s)>> \o Head(rest) >> \o Tail(rest)

ToTokenString(t) == t.id \o <<Sep>> \o t.secret

\* parseTokenString taking the parts in the other order
parseTokenString_Swapped(tokenString) ==
    LET parts == Split(tokenString)
    IN  IF Len(parts) # 2
        THEN [err |-> ErrInvalidTokenString, id |-> <<>>, secret |-> <<>>]
        ELSE [err |-> Nil, id |-> parts[2], secret |-> parts[1]]

parseTokenString(tokenString) ==
    LET parts == Split(tokenString)
    IN  IF Len(parts) # 2
        THEN [err |-> ErrInvalidTokenString, id |-> <<>>, secret |-> <<>>]
        ELSE [err |-> Nil, id |-> parts[1], secret |-> parts[2]]

\* values randomString can return (hex strings, shortened)
IdStrings == { <<"a">>, <<"b">> }
SecretStrings == { <<"a">>, <<"b">> }

\* newToken(): any pair of random hex strings
newToken == { [id |-> i, secret |-> s] : i \in IdStrings, s \in SecretStrings }

(***************************************************************************)
(* Credential hasher (package crypto).                                     *)
(***************************************************************************)
CalculateArgonHash(secret) == [argon2id |-> secret]

\* ValidatePasswordWithArgonHash(secret, hash) returns (match, err): this is match
ValidatePasswordWithArgonHash(secret, hash) == hash = [argon2id |-> secret]

ErrInvalidHash == "invalid hash"

\* a stored value that is not an encoded argon2id hash
Corrupt(text) == [corrupt |-> text]

\* err of ValidatePasswordWithArgonHash: set only when the stored hash cannot be decoded
ValidatePasswordWithArgonHashErr(secret, hash) ==
    IF "argon2id" \in DOMAIN hash THEN Nil ELSE ErrInvalidHash

\* a column holding a text as it was given, not hashed
Unhashed(text) == [plain |-> text]

(***************************************************************************)
(* Users table: seeded, never written by the core.                         *)
(***************************************************************************)
UsersTable ==
    { [id |-> "u1", username |-> "admin",
       password |-> CalculateArgonHash(<<"a", "d", "m", "i", "n">>)],
      [id |-> "u2", username |-> "bob",
       password |-> CalculateArgonHash(<<"b", "o", "b">>)],
      [id |-> "u3", username |-> "carol", password |-> Corrupt(<<"x">>)] }

GetUser(id) ==
    IF \E u \in UsersTable : u.id = id
    THEN [err |-> Nil, user |-> CHOOSE u \in UsersTable : u.id = id]
    ELSE [err |-> ErrNotFound, user |-> None]

\* the outcomes of a query on the connection: Nil when the database answers, the
\* driver's error when it does not
Connections == { Nil, ErrPg }

\* SELECT * FROM users WHERE username = $1
GetUserByUsername(conn, username) ==
    LET rows == { u \in UsersTable : u.username = username }
    IN  IF conn # Nil
        THEN [err |-> conn, user |-> {}]
        ELSE IF rows = {}
        THEN [err |-> ErrNotFound, user |-> {}]
        ELSE [err |-> Nil, user |-> { CHOOSE u \in rows : TRUE }]

\* CheckUsernamePassword telling the caller that the username is unknown
CheckUsernamePassword_ReportsNotFound(conn, username, password) ==
    LET got == GetUserByUsername(conn, username)
    IN  IF got.err # Nil THEN [err |-> got.err, user |-> {}]
        ELSE IF \E u \in got.user : ValidatePasswordWithArgonHashErr(password, u.password) # Nil
        THEN [err |-> ErrInvalidHash, user |-> {}]
        ELSE IF \A u \in got.user : ~ValidatePasswordWithArgonHash(password, u.password)
        THEN [err |-> ErrUnauthenticated, user |-> {}]
        ELSE [err |-> Nil, user |-> got.user]

\* CheckUsernamePassword answering every failure of the query with Unauthenticated
CheckUsernamePassword_SwallowsFailure(conn, username, password) ==
    LET got == GetUserByUsername(conn, username)
    IN  IF got.err # Nil THEN [err |-> ErrUnauthenticated, user |-> {}]
        ELSE IF \E u \in got.user : ValidatePasswordWithArgonHashErr(password, u.password) # Nil
        THEN [err |-> ErrInvalidHash, user |-> {}]
        ELSE IF \A u \in got.user : ~ValidatePasswordWithArgonHash(password, u.password)
        THEN [err |-> ErrUnauthenticated, user |-> {}]
        ELSE [err |-> Nil, user |-> got.user]

\* authService.CheckUsernamePassword(username, password) -> User | Unauthenticated
CheckUsernamePassword(conn, username, password) ==
    LET got == GetUserByUsername(conn, username)
    IN  IF got.err = ErrNotFound THEN [err |-> ErrUnauthenticated, user |-> {}]
        ELSE IF got.err # Nil THEN [err |-> got.err, user |-> {}]
        ELSE IF \E u \in got.user : ValidatePasswordWithArgonHashErr(password, u.password) # Nil
        THEN [err |-> ErrInvalidHash, user |-> {}]
        ELSE IF \A u \in got.user : ~ValidatePasswordWithArgonHash(password, u.password)
        THEN [err |-> ErrUnauthenticated, user |-> {}]
        ELSE [err |-> Nil, user |-> got.user]

(***************************************************************************)
(* Clock: seconds.  The model observes the clock at a few instants.        *)
(***************************************************************************)
TokenLifetime == 7 * 24 * 3600

Instants == { 0, TokenLifetime - 1, TokenLifetime }

(***************************************************************************)
(* Token repository (PostgresAuthRepository).  The table is a set of rows  *)
(* with primary key id.                                                    *)
(***************************************************************************)
\* StoreToken binding the creation time to expires_at
StoreToken_ExpiresAtCreation(table, token) ==
    IF \E r \in table : r.id = token.id
    THEN [err |-> ErrPg, table |-> table]
    ELSE [err |-> Nil,
          table |-> table \cup
              { [id |-> token.id, user_id |-> token.userId, hash |-> token.hash,
                 user_agent |-> token.userAgent, source_ip |-> token.sourceIP,
                 revoked |-> token.revoked, created_at |-> token.createdAt,
                 expires_at |-> token.createdAt] }]

\* INSERT INTO tokens ...: fails on a duplicate primary key
StoreToken(table, token) ==
    IF \E r \in table : r.id = token.id
    THEN [err |-> ErrPg, table |-> table]
    ELSE [err |-> Nil,
          table |-> table \cup
              { [id |-> token.id, user_id |-> token.userId, hash |-> token.hash,
                 user_agent |-> token.userAgent, source_ip |-> token.sourceIP,
                 revoked |-> token.revoked, created_at |-> token.createdAt,
                 expires_at |-> token.expiresAt] }]

\* row.Scan of the first row of a result set: pgx.ErrNoRows when it is empty
ScanRow(rows) == IF rows = {} THEN "no rows" ELSE Nil

\* GetToken scanning created_at and expires_at into each other's field
GetToken_SwappedTimes(table, tokenId) ==
    LET rows == { r \in table : r.id = tokenId }
    IN  IF ScanRow(rows) # Nil
        THEN [err |-> ErrNotFound, token |-> None]
        ELSE LET r == CHOOSE r \in rows : TRUE
             IN  [err |-> Nil,
                  token |-> [id |-> r.id, hash |-> r.hash, userId |-> r.user_id,
                             createdAt |-> r.expires_at, expiresAt |-> r.created_at,
                             sourceIP |-> r.source_ip, revoked |-> r.revoked,
                             userAgent |-> r.user_agent]]

\* SELECT * FROM tokens WHERE id = $1
GetToken(table, tokenId) ==
    LET rows == { r \in table : r.id = tokenId }
    IN  IF ScanRow(rows) # Nil
        THEN [err |-> ErrNotFound, token |-> None]
        ELSE LET r == CHOOSE r \in rows : TRUE
             IN  [err |-> Nil,
                  token |-> [id |-> r.id, hash |-> r.hash, userId |-> r.user_id,
                             createdAt |-> r.created_at, expiresAt |-> r.expires_at,
                             sourceIP |-> r.source_ip, revoked |-> r.revoked,
                             userAgent |-> r.user_agent]]

\* DeleteToken passing pgx.ErrNoRows on without mapping it to ErrNotFound
DeleteToken_RawNoRows(table, tokenId) ==
    LET updated == { IF r.id = tokenId THEN [r EXCEPT !.revoked = TRUE] ELSE r : r \in table }
    IN  [err |-> ScanRow({}), table |-> updated]

\* DELETE FROM tokens WHERE id=@id RETURNING *: the row is removed
DeleteToken_PhysicalDelete(table, tokenId) ==
    LET deleted == { r \in table : r.id = tokenId }
    IN  IF ScanRow(deleted) # Nil
        THEN [err |-> ErrNotFound, table |-> table]
        ELSE [err |-> Nil, table |-> table \ deleted]

\* UPDATE tokens SET revoked=true WHERE id=@id: the statement has no RETURNING
\* clause, so its result set is empty and the Scan reports pgx.ErrNoRows
DeleteToken(table, tokenId) ==
    LET updated == { IF r.id = tokenId THEN [r EXCEPT !.revoked = TRUE] ELSE r : r \in table }
        returned == {}
    IN  IF ScanRow(returned) # Nil
        THEN [err |-> ErrNotFound, table |-> updated]
        ELSE [err |-> Nil, table |-> updated]

\* a deferred function that commits whatever the call returns
EndTx_AlwaysCommit(err, before, after) == after

\* the deferred commit / rollback of every service method
EndTx(err, before, after) == IF err = Nil THEN after ELSE before

(***************************************************************************)
(* Auth service: user tokens.                                              *)
(***************************************************************************)
Origins == { [userAgent |-> "curl", sourceIP |-> "10.0.0.1"] }

\* ValidateToken(credentialString) -> (User, publicId) | Unauthenticated
ValidateToken(table, t, tokenString) ==
    LET tc == parseTokenString(tokenString)
        got == GetToken(table, tc.id)
        owner == GetUser(got.token.userId)
        fail == [err |-> ErrUnauthenticated, user |-> None, tokenId |-> None]
    IN  IF tc.err # Nil THEN fail
        ELSE IF got.err # Nil THEN fail
        ELSE IF t >= got.token.expiresAt \/ got.token.revoked THEN fail
        ELSE IF ~ValidatePasswordWithArgonHash(tc.secret, got.token.hash) THEN fail
        ELSE IF owner.err # Nil THEN fail
        ELSE [err |-> Nil, user |-> owner.user, tokenId |-> got.token.id]

\* IssueToken(userId, originMetadata) -> (Token, credentialString)
CreateSessionToken(table, t, opt, tc) ==
    LET owner == GetUser(opt.userId)
        token == [id |-> tc.id, hash |-> CalculateArgonHash(tc.secret),
                  userId |-> opt.userId, userAgent |-> opt.userAgent,
                  sourceIP |-> opt.sourceIP, revoked |-> FALSE,
                  createdAt |-> t, expiresAt |-> t + TokenLifetime]
        stored == StoreToken(table, token)
    IN  IF owner.err # Nil
        THEN [err |-> owner.err, token |-> None, tokenString |-> None, table |-> table]
        ELSE IF stored.err # Nil
        THEN [err |-> stored.err, token |-> None, tokenString |-> None,
              table |-> EndTx(stored.err, table, stored.table)]
        ELSE [err |-> Nil, token |-> token, tokenString |-> ToTokenString(tc),
              table |-> EndTx(Nil, table, stored.table)]

\* RevokeToken(credentialString) -> success | Unauthenticated
RevokeToken(table, tokenString) ==
    LET tc == parseTokenString(tokenString)
        del == DeleteToken(table, tc.id)
    IN  IF tc.err # Nil THEN [err |-> ErrUnauthenticated, table |-> table]
        ELSE IF del.err = ErrNotFound
        THEN [err |-> ErrUnauthenticated, table |-> EndTx(del.err, table, del.table)]
        ELSE [err |-> del.err, table |-> EndTx(del.err, table, del.table)]

(***************************************************************************)
(* Auth service: sessions.  The session token is the credential the login  *)
(* hands to the caller.  Each method returns, next to its result, the       *)
(* entries it wrote to the log: level, format string and arguments.        *)
(***************************************************************************)
\* values generateSessionID can return
SessionIds == { "s1", "s2" }

LogEntry(level, msg, args) == [level |-> level, msg |-> msg, args |-> args]

\* INSERT INTO sessions ...: token is the primary key
RepoCreateSession(table, session) ==
    IF \E r \in table : r.token = session.token
    THEN [err |-> ErrPg, table |-> table]
    ELSE [err |-> Nil,
          table |-> table \cup
              { [token |-> session.token, user_id |-> session.userId,
                 user_agent |-> session.userAgent, source_ip |-> session.sourceIP,
                 revoked |-> session.revoked, created_at |-> session.createdAt,
                 expires_at |-> session.expiresAt] }]

\* SELECT * FROM sessions WHERE token = $1
GetSession(conn, table, token) ==
    LET rows == { r \in table : r.token = token }
    IN  IF conn # Nil
        THEN [err |-> conn, session |-> {}]
        ELSE IF ScanRow(rows) # Nil
        THEN [err |-> ErrNotFound, session |-> {}]
        ELSE [err |-> Nil, session |-> { CHOOSE r \in rows : TRUE }]

\* authService.CreateSession(opt); token is the value generateSessionID returns
CreateSession(table, t, opt, token) ==
    LET owner == GetUser(opt.userId)
        session == [userId |-> opt.userId, token |-> token, userAgent |-> opt.userAgent,
                    sourceIP |-> opt.sourceIP, revoked |-> FALSE, createdAt |-> t,
                    expiresAt |-> t + TokenLifetime]
        created == RepoCreateSession(table, session)
        l1 == << LogEntry("DEBUG", "creating session for user %s", <<opt.userId>>) >>
    IN  IF owner.err # Nil
        THEN [err |-> owner.err, session |-> {}, table |-> table,
              log |-> l1 \o << LogEntry("WARN",
                          "requested to create session for unknown user id %s",
                          <<opt.userId>>) >>]
        ELSE IF created.err # Nil
        THEN [err |-> created.err, session |-> {},
              table |-> EndTx(created.err, table, created.table),
              log |-> l1 \o << LogEntry("ERROR", "failed to create session", <<>>) >>]
        ELSE [err |-> Nil, session |-> { session },
              table |-> EndTx(Nil, table, created.table),
              log |-> l1 \o << LogEntry("INFO",
                          "created session for user %s with token %s",
                          <<opt.userId, session.token>>) >>]

\* authService.ValidateSession(token) -> User | Unauthenticated
ValidateSession(conn, table, token) ==
    LET got == GetSession(conn, table, token)
        owners == { GetUser(x.user_id) : x \in got.session }
        l1 == << LogEntry("DEBUG", "validating session with token %s", <<token>>) >>
    IN  IF got.err # Nil /\ got.err # ErrNotFound
        THEN [err |-> got.err, user |-> {}, log |-> l1]
        ELSE IF got.err # Nil
        THEN [err |-> ErrUnauthenticated, user |-> {},
              log |-> l1 \o << LogEntry("WARN", "unknown session token %s", <<token>>) >>]
        ELSE IF \E o \in owners : o.err # Nil
        THEN [err |-> ErrUnauthenticated, user |-> {},
              log |-> l1 \o << LogEntry("WARN", "unknown user %s for session",
                                        <<(CHOOSE x \in got.session : TRUE).user_id>>) >>]
        ELSE LET user == (CHOOSE o \in owners : TRUE).user
             IN  [err |-> Nil, user |-> { user },
                  log |-> l1 \o << LogEntry("DEBUG",
                      "authentication request for token user %s (%s) using session token %s is valid",
                      <<user.id, user.username, token>>) >>]

(***************************************************************************)
(* Agent repository (PostgresAgentRepository) and agent service.           *)
(***************************************************************************)
\* GetAgent returning only rows younger than the lifetime of a user token
GetAgent_OnlyFresh(table, id) ==
    LET rows == { r \in table : r.id = id /\ now < r.created_at + TokenLifetime }
    IN  IF ScanRow(rows) # Nil
        THEN [err |-> ErrNotFound, agent |-> None]
        ELSE LET r == CHOOSE r \in rows : TRUE
             IN  [err |-> Nil,
                  agent |-> [id |-> r.id, name |-> r.name,
                             tokenHash |-> r.auth_token_hash, createdAt |-> r.created_at]]

\* SELECT * FROM agents WHERE id = $1
GetAgent(table, id) ==
    LET rows == { r \in table : r.id = id }
    IN  IF ScanRow(rows) # Nil
        THEN [err |-> ErrNotFound, agent |-> None]
        ELSE LET r == CHOOSE r \in rows : TRUE
             IN  [err |-> Nil,
                  agent |-> [id |-> r.id, name |-> r.name,
                             tokenHash |-> r.auth_token_hash, createdAt |-> r.created_at]]

\* DELETE FROM agents WHERE id = @id RETURNING ...: ErrNotFound when no row is
\* returned
RepoDeleteAgent(table, id) ==
    LET returned == { r \in table : r.id = id }
    IN  IF ScanRow(returned) # Nil
        THEN [err |-> ErrNotFound, table |-> table]
        ELSE [err |-> Nil, table |-> table \ returned]

\* INSERT INTO agents ... ON CONFLICT (name) DO UPDATE: the row of that name is replaced
RepoCreateAgent_Upsert(table, agent) ==
    IF \E r \in table : r.id = agent.id /\ r.name # agent.name
    THEN [err |-> ErrUniqueViolation, table |-> table]
    ELSE [err |-> Nil,
          table |-> { r \in table : r.name # agent.name } \cup
              { [id |-> agent.id, name |-> agent.name,
                 auth_token_hash |-> agent.tokenHash, created_at |-> agent.createdAt] }]

\* INSERT INTO agents ... into a table whose id column is not a key
RepoCreateAgent_NoPrimaryKey(table, agent) ==
    IF \E r \in table : r.name = agent.name
    THEN [err |-> ErrUniqueViolation, table |-> table]
    ELSE [err |-> Nil,
          table |-> table \cup
              { [id |-> agent.id, name |-> agent.name,
                 auth_token_hash |-> agent.tokenHash, created_at |-> agent.createdAt] }]

\* INSERT INTO agents ...: id is the primary key, name is unique
RepoCreateAgent(table, agent) ==
    IF \E r \in table : r.id = agent.id \/ r.name = agent.name
    THEN [err |-> ErrUniqueViolation, table |-> table]
    ELSE [err |-> Nil,
          table |-> table \cup
              { [id |-> agent.id, name |-> agent.name,
                 auth_token_hash |-> agent.tokenHash, created_at |-> agent.createdAt] }]

\* CreateAgent keeping the secret itself in the row
CreateAgent_StoresSecret(table, t, name, tc) ==
    LET agent == [id |-> tc.id, name |-> name,
                  tokenHash |-> Unhashed(tc.secret), createdAt |-> t]
        created == RepoCreateAgent(table, agent)
    IN  IF created.err # Nil
        THEN [err |-> created.err, agent |-> None, tokenString |-> None,
              table |-> EndTx(created.err, table, created.table)]
        ELSE [err |-> Nil, agent |-> agent, tokenString |-> ToTokenString(tc),
              table |-> EndTx(Nil, table, created.table)]

\* agentService.CreateAgent(name) -> (Agent, credentialString)
CreateAgent(table, t, name, tc) ==
    LET agent == [id |-> tc.id, name |-> name,
                  tokenHash |-> CalculateArgonHash(tc.secret), createdAt |-> t]
        created == RepoCreateAgent(table, agent)
    IN  IF created.err # Nil
        THEN [err |-> created.err, agent |-> None, tokenString |-> None,
              table |-> EndTx(created.err, table, created.table)]
        ELSE [err |-> Nil, agent |-> agent, tokenString |-> ToTokenString(tc),
              table |-> EndTx(Nil, table, created.table)]

\* agentService.DeleteAgent(id) -> Agent
DeleteAgent(table, id) ==
    LET got == GetAgent(table, id)
        del == RepoDeleteAgent(table, id)
    IN  IF got.err # Nil THEN [err |-> got.err, agent |-> {}, table |-> table]
        ELSE IF del.err # Nil
        THEN [err |-> del.err, agent |-> {}, table |-> EndTx(del.err, table, del.table)]
        ELSE [err |-> Nil, agent |-> { got.agent }, table |-> EndTx(Nil, table, del.table)]

\* CreateAgentWithToken replacing the name and hash of an agent that exists
CreateAgentWithToken_Overwrite(table, t, tokenPlain, name) ==
    LET tokenComponents == parseTokenString(tokenPlain)
        agent == [id |-> tokenComponents.id, name |-> name,
                  tokenHash |-> CalculateArgonHash(tokenComponents.secret), createdAt |-> t]
        created == RepoCreateAgent({ r \in table : r.id # agent.id }, agent)
    IN  IF tokenComponents.err # Nil
        THEN [err |-> "invalid token format", agent |-> {}, table |-> table]
        ELSE IF created.err # Nil
        THEN [err |-> created.err, agent |-> {}, table |-> EndTx(created.err, table, created.table)]
        ELSE [err |-> Nil, agent |-> { agent }, table |-> EndTx(Nil, table, created.table)]

\* agentService.CreateAgentWithToken(tokenPlain, name) -> Agent: the bootstrap of
\* the agent whose credential the operator configured
CreateAgentWithToken(table, t, tokenPlain, name) ==
    LET tokenComponents == parseTokenString(tokenPlain)
        existingAgent == GetAgent(table, tokenComponents.id)
        agent == [id |-> tokenComponents.id, name |-> name,
                  tokenHash |-> CalculateArgonHash(tokenComponents.secret), createdAt |-> t]
        created == RepoCreateAgent(table, agent)
    IN  IF tokenComponents.err # Nil
        THEN [err |-> "invalid token format", agent |-> {}, table |-> table]
        ELSE IF existingAgent.err # Nil /\ existingAgent.err # ErrNotFound
        THEN [err |-> existingAgent.err, agent |-> {}, table |-> table]
        ELSE IF existingAgent.err = Nil
        THEN [err |-> Nil, agent |-> { existingAgent.agent }, table |-> EndTx(Nil, table, table)]
        ELSE IF created.err # Nil
        THEN [err |-> created.err, agent |-> {}, table |-> EndTx(created.err, table, created.table)]
        ELSE [err |-> Nil, agent |-> { agent }, table |-> EndTx(Nil, table, created.table)]

\* ValidateAgentToken(credentialString) -> Agent | Unauthenticated
ValidateAgentToken(table, tokenString) ==
    LET tc == parseTokenString(tokenString)
        got == GetAgent(table, tc.id)
        fail == [err |-> ErrUnauthenticated, agent |-> None]
    IN  IF tc.err # Nil THEN fail
        ELSE IF got.err # Nil THEN fail
        ELSE IF ~ValidatePasswordWithArgonHash(tc.secret, got.agent.tokenHash) THEN fail
        ELSE [err |-> Nil, agent |-> got.agent]

(***************************************************************************)
(* Authentication middleware.  A header is a string; the prefix "Bearer "  *)
(* is one symbol of it.  An absent header reads as the empty string.       *)
(***************************************************************************)
Bearer == "Bearer "

StatusUnauthorized == 401

\* the body http.Error writes
Unauthorized == "unauthorized"

\* strings.CutPrefix(s, "Bearer ")
CutPrefix(s) ==
    IF s # <<>> /\ Head(s) = Bearer
    THEN [after |-> Tail(s), found |-> TRUE]
    ELSE [after |-> s, found |-> FALSE]

\* r.Context() of an incoming request: no value under KeyUserInfo or KeyAgentInfo
RequestContext == [user |-> {}, agent |-> {}]

\* tryUserAuthentication without the check of the "Bearer " prefix
tryUserAuthentication_NoFormatCheck(tokenTable, t, r) ==
    LET authHeader == r.authorization
        cut == CutPrefix(authHeader)
        v == ValidateToken(tokenTable, t, cut.after)
    IN  IF authHeader = <<>> THEN [ctx |-> RequestContext, ok |-> FALSE]
        ELSE IF v.err # Nil THEN [ctx |-> RequestContext, ok |-> FALSE]
        ELSE [ctx |-> [RequestContext EXCEPT !.user =
                          { [userID |-> v.user.id, username |-> v.user.username,
                             tokenID |-> v.tokenId] }],
              ok |-> TRUE]

tryUserAuthentication(tokenTable, t, r) ==
    LET authHeader == r.authorization
        cut == CutPrefix(authHeader)
        v == ValidateToken(tokenTable, t, cut.after)
    IN  IF authHeader = <<>> THEN [ctx |-> RequestContext, ok |-> FALSE]
        ELSE IF ~cut.found THEN [ctx |-> RequestContext, ok |-> FALSE]
        ELSE IF v.err # Nil THEN [ctx |-> RequestContext, ok |-> FALSE]
        ELSE [ctx |-> [RequestContext EXCEPT !.user =
                          { [userID |-> v.user.id, username |-> v.user.username,
                             tokenID |-> v.tokenId] }],
              ok |-> TRUE]

tryAgentAuthentication(agentTable, r) ==
    LET agentToken == r.xAgentToken
        v == ValidateAgentToken(agentTable, agentToken)
    IN  IF agentToken = <<>> THEN [ctx |-> RequestContext, ok |-> FALSE]
        ELSE IF v.err # Nil THEN [ctx |-> RequestContext, ok |-> FALSE]
        ELSE [ctx |-> [RequestContext EXCEPT !.agent = { [agentID |-> v.agent.id] }],
              ok |-> TRUE]

\* OnRequest with the two paths tried in the other order
OnRequest_AgentFirst(tokenTable, agentTable, t, r) ==
    LET u == tryUserAuthentication(tokenTable, t, r)
        a == tryAgentAuthentication(agentTable, r)
    IN  IF ~a.ok
        THEN IF ~u.ok
             THEN [status |-> StatusUnauthorized, body |-> Unauthorized, next |-> FALSE,
                   ctx |-> RequestContext,
                   tried |-> <<"agent", "user">>]
             ELSE [status |-> 0, body |-> "", next |-> TRUE, ctx |-> u.ctx,
                   tried |-> <<"agent", "user">>]
        ELSE [status |-> 0, body |-> "", next |-> TRUE, ctx |-> a.ctx, tried |-> <<"agent">>]

\* OnRequest running both paths and attaching every principal found
OnRequest_BothPrincipals(tokenTable, agentTable, t, r) ==
    LET u == tryUserAuthentication(tokenTable, t, r)
        a == tryAgentAuthentication(agentTable, r)
    IN  IF ~u.ok /\ ~a.ok
        THEN [status |-> StatusUnauthorized, body |-> Unauthorized, next |-> FALSE,
              ctx |-> RequestContext,
              tried |-> <<"user", "agent">>]
        ELSE [status |-> 0, body |-> "", next |-> TRUE,
              ctx |-> [user |-> u.ctx.user, agent |-> a.ctx.agent],
              tried |-> <<"user", "agent">>]

\* OnRequest without the agent path
OnRequest_UserOnly(tokenTable, agentTable, t, r) ==
    LET u == tryUserAuthentication(tokenTable, t, r)
    IN  IF ~u.ok
        THEN [status |-> StatusUnauthorized, body |-> Unauthorized, next |-> FALSE,
              ctx |-> RequestContext,
              tried |-> <<"user">>]
        ELSE [status |-> 0, body |-> "", next |-> TRUE, ctx |-> u.ctx, tried |-> <<"user">>]

\* OnRequest answering a header that is not a bearer header with 400
OnRequest_StatusByCause(tokenTable, agentTable, t, r) ==
    LET u == tryUserAuthentication(tokenTable, t, r)
        a == tryAgentAuthentication(agentTable, r)
    IN  IF ~u.ok
        THEN IF ~a.ok
             THEN [status |-> IF r.authorization # <<>> /\ ~CutPrefix(r.authorization).found
                              THEN 400 ELSE StatusUnauthorized,
                   body |-> Unauthorized, next |-> FALSE, ctx |-> RequestContext,
                   tried |-> <<"user", "agent">>]
             ELSE [status |-> 0, body |-> "", next |-> TRUE, ctx |-> a.ctx,
                   tried |-> <<"user", "agent">>]
        ELSE [status |-> 0, body |-> "", next |-> TRUE, ctx |-> u.ctx, tried |-> <<"user">>]

\* the response of OnRequest: either 401, or the downstream handler runs with ctx;
\* tried lists the paths OnRequest evaluated, in order
OnRequest(tokenTable, agentTable, t, r) ==
    LET u == tryUserAuthentication(tokenTable, t, r)
        a == tryAgentAuthentication(agentTable, r)
    IN  IF ~u.ok
        THEN IF ~a.ok
             THEN [status |-> StatusUnauthorized, body |-> Unauthorized, next |-> FALSE,
                   ctx |-> RequestContext,
                   tried |-> <<"user", "agent">>]
             ELSE [status |-> 0, body |-> "", next |-> TRUE, ctx |-> a.ctx,
                   tried |-> <<"user", "agent">>]
        ELSE [status |-> 0, body |-> "", next |-> TRUE, ctx |-> u.ctx, tried |-> <<"user">>]

(***************************************************************************)
(* Assets (PostgresScanRepository, scanService).  assets has primary key   *)
(* id and a unique endpoint; asset_history has primary key id and refers   *)
(* to assets(id) and users(id).                                            *)
(***************************************************************************)
ErrNoUserInfo == "no user info in context"

ScanAssetEventTypeCreated == "created"

\* cortexContext.UserInfo(ctx)
UserInfo(ctx) ==
    IF ctx.user # {}
    THEN [err |-> Nil, userID |-> (CHOOSE i \in ctx.user : TRUE).userID]
    ELSE [err |-> ErrNoUserInfo, userID |-> ""]

\* INSERT INTO assets (id, endpoint): a unique violation is returned as
\* ErrUniqueViolation; any other error of Exec is dropped and nil is returned, and the
\* transaction is then in the aborted state
CreateScanAsset(conn, table, scanAsset) ==
    IF conn # Nil
    THEN [err |-> Nil, table |-> table, aborted |-> TRUE]
    ELSE IF \E r \in table : r.id = scanAsset.ID \/ r.endpoint = scanAsset.Endpoint
    THEN [err |-> ErrUniqueViolation, table |-> table, aborted |-> TRUE]
    ELSE [err |-> Nil, aborted |-> FALSE,
          table |-> table \cup { [id |-> scanAsset.ID, endpoint |-> scanAsset.Endpoint] }]

\* INSERT INTO asset_history ...: the error of Exec is returned
AddAssetHistoryEntry(conn, table, assetTable, entry) ==
    IF \/ conn # Nil
       \/ \E r \in table : r.id = entry.ID
       \/ ~\E a \in assetTable : a.id = entry.AssetID
       \/ ~\E u \in UsersTable : u.id = entry.UserID
    THEN [err |-> ErrPg, table |-> table]
    ELSE [err |-> Nil,
          table |-> table \cup
              { [id |-> entry.ID, asset_id |-> entry.AssetID, event_type |-> entry.Type,
                 user_id |-> entry.UserID, timestamp |-> entry.Time] }]

\* scanService.CreateAsset(ctx, endpoint); ids are the two values uuid.New() returns,
\* conns the outcomes of the two statements on the connection
CreateAsset(assetTable, historyTable, t, ctx, endpoint, ids, conns) ==
    LET asset == [ID |-> ids[1], Endpoint |-> endpoint]
        created == CreateScanAsset(conns[1], assetTable, asset)
        userInfo == UserInfo(ctx)
        event == [ID |-> ids[2], AssetID |-> asset.ID, UserID |-> userInfo.userID,
                  Time |-> t, Type |-> ScanAssetEventTypeCreated]
        added == AddAssetHistoryEntry(IF created.aborted THEN ErrPg ELSE conns[2],
                                      historyTable, created.table, event)
    IN  IF created.err # Nil
        THEN [err |-> created.err, asset |-> {},
              assets |-> EndTx(created.err, assetTable, created.table),
              history |-> EndTx(created.err, historyTable, historyTable)]
        ELSE IF userInfo.err # Nil
        THEN [err |-> userInfo.err, asset |-> {},
              assets |-> EndTx(userInfo.err, assetTable, created.table),
              history |-> EndTx(userInfo.err, historyTable, historyTable)]
        ELSE IF added.err # Nil
        THEN [err |-> added.err, asset |-> {},
              assets |-> EndTx(added.err, assetTable, created.table),
              history |-> EndTx(added.err, historyTable, added.table)]
        ELSE [err |-> Nil, asset |-> { asset },
              assets |-> EndTx(Nil, assetTable, created.table),
              history |-> EndTx(Nil, historyTable, added.table)]

(***************************************************************************)
(* Request validation (package handler).  A rule is a function from a      *)
(* value to an error; an absent error is the empty set.  Values are        *)
(* strings.                                                                *)
(***************************************************************************)
AnyLength == 0

NewValidationError(format, n) == [Message |-> format, n |-> n]

\* Required()
Required == [rule |-> "Required", min |-> 0, max |-> 0]

\* Length(min, max)
Length(min, max) == [rule |-> "Length", min |-> min, max |-> max]

\* rule(value) for the rules above
ApplyRule(rule, value) ==
    IF rule.rule = "Required"
    THEN IF value = <<>> THEN { NewValidationError("is required", 0) } ELSE {}
    ELSE IF rule.min # AnyLength /\ Len(value) < rule.min
    THEN { NewValidationError("must be at least %d characters long", rule.min) }
    ELSE IF rule.max # AnyLength /\ Len(value) > rule.max
    THEN { NewValidationError("must be at most %d characters long", rule.max) }
    ELSE {}

\* the inner loop of ValidateStruct without its break: the last failing rule wins
RECURSIVE applyRules_NoBreak(_, _, _)
applyRules_NoBreak(rules, value, i) ==
    IF i > Len(rules) THEN {}
    ELSE LET later == applyRules_NoBreak(rules, value, i + 1)
         IN  IF later # {} THEN later ELSE ApplyRule(rules[i], value)

\* the inner loop of ValidateStruct from rule i on: the error of the first rule
\* that fails, then break
RECURSIVE applyRules(_, _, _)
applyRules(rules, value, i) ==
    IF i > Len(rules) THEN {}
    ELSE LET err == ApplyRule(rules[i], value)
         IN  IF err # {} THEN err ELSE applyRules(rules, value, i + 1)

\* the outer loop of ValidateStruct from field i on; errors is the map so far, a set
\* of entries with one entry per key
RECURSIVE validateFields(_, _, _)
validateFields(fields, i, errors) ==
    IF i > Len(fields) THEN errors
    ELSE LET field == fields[i]
             err == applyRules(field.Rules, field.Value, 1)
         IN  validateFields(fields, i + 1,
                IF err = {} THEN errors
                ELSE { e \in errors : e.field # field.FieldName }
                     \cup { [field |-> field.FieldName, err |-> e] : e \in err })

\* ValidateStruct(fields...) -> StructValidationError | nil
ValidateStruct(fields) ==
    LET errors == validateFields(fields, 1, {})
    IN  IF Cardinality(errors) > 0
        THEN [err |-> "StructValidationError", errors |-> errors]
        ELSE [err |-> Nil, errors |-> {}]

(***************************************************************************)
(* Finding fingerprint.  A payload (map[string]any decoded from a JSON      *)
(* object) is the sequence of its key/value pairs in the order the         *)
(* submitter wrote them; keys are distinct.                                *)
(***************************************************************************)
FindingTypePort == "port"
FindingTypeVulnerability == "vulnerability"

Num(digits) == [kind |-> "number", text |-> digits]
Str(chars) == [kind |-> "string", text |-> chars]
NilValue == [kind |-> "nil", text |-> <<>>]

\* c.data[field]: the value under the key, nil for a missing key
Lookup(data, field) ==
    IF \E i \in 1..Len(data) : data[i].key = field
    THEN data[CHOOSE i \in 1..Len(data) : data[i].key = field].value
    ELSE NilValue

\* json.Marshal of a decoded JSON value
Marshal(v) ==
    CASE v.kind = "number" -> [err |-> Nil, bytes |-> v.text]
      [] v.kind = "string" -> [err |-> Nil, bytes |-> <<"\"">> \o v.text \o <<"\"">>]
      [] v.kind = "nil"    -> [err |-> Nil, bytes |-> <<"n", "u", "l", "l">>]
      [] OTHER             -> [err |-> "unsupported value", bytes |-> <<>>]

\* SHA-256, hex encoded: taken to be collision free, so the digest stands for
\* the bytes written to it
Sha256Hex(bytes) == <<"sha256:">> \o bytes

newFindingHashCalculator(data) == [data |-> data, errors |-> <<>>, written |-> <<>>]

\* addField hashing every value of the payload, in payload order
RECURSIVE MarshalAll(_)
MarshalAll(data) ==
    IF data = <<>> THEN <<>> ELSE Marshal(Head(data).value).bytes \o MarshalAll(Tail(data))

addField_WholePayload(c, field) ==
    [c EXCEPT !.written = c.written \o MarshalAll(c.data)]

addField(c, field) ==
    LET m == Marshal(Lookup(c.data, field))
    IN  IF m.err # Nil
        THEN [c EXCEPT !.errors = Append(c.errors, m.err)]
        ELSE [c EXCEPT !.written = c.written \o m.bytes]

calculateHash(c) ==
    IF Len(c.errors) > 0
    THEN [err |-> "unable to calculate finding hash", hash |-> <<>>]
    ELSE [err |-> Nil, hash |-> Sha256Hex(c.written)]

\* calculateFindingHash falling back to the port fields for an unknown type
calculateFindingHash_DefaultFields(findingType, findingData) ==
    LET calculator == newFindingHashCalculator(findingData)
    IN  CASE findingType = FindingTypeVulnerability ->
               calculateHash(addField(addField(calculator, "template-id"), "port"))
          [] OTHER ->
               calculateHash(addField(addField(calculator, "port"), "protocol"))

calculateFindingHash(findingType, findingData) ==
    LET calculator == newFindingHashCalculator(findingData)
    IN  CASE findingType = FindingTypePort ->
               calculateHash(addField(addField(calculator, "port"), "protocol"))
          [] findingType = FindingTypeVulnerability ->
               calculateHash(addField(addField(calculator, "template-id"), "port"))
          [] OTHER -> [err |-> "unsupported finding type", hash |-> <<>>]

\* the fields calculateFindingHash adds for a type
RequiredFields(findingType) ==
    CASE findingType = FindingTypePort -> <<"port", "protocol">>
      [] findingType = FindingTypeVulnerability -> <<"template-id", "port">>
      [] OTHER -> <<>>

(***************************************************************************)
(* Finding service and the asset_findings table.                           *)
(***************************************************************************)
ErrNoAgentInfo == "no agent info in context"

\* AgentInfo answering a context without agent info with an empty agent id
AgentInfo_Anonymous(ctx) ==
    IF ctx.agent # {}
    THEN [err |-> Nil, agentID |-> (CHOOSE i \in ctx.agent : TRUE).agentID]
    ELSE [err |-> Nil, agentID |-> <<>>]

\* cortexContext.AgentInfo(ctx)
AgentInfo(ctx) ==
    IF ctx.agent # {}
    THEN [err |-> Nil, agentID |-> (CHOOSE i \in ctx.agent : TRUE).agentID]
    ELSE [err |-> ErrNoAgentInfo, agentID |-> <<>>]

\* INSERT INTO asset_findings ...: id is the primary key, agent_id references agents(id)
PutAssetFinding(table, agentTable, result) ==
    IF \/ \E r \in table : r.id = result.id
       \/ ~\E g \in agentTable : g.id = result.agentID
    THEN [err |-> ErrPg, table |-> table]
    ELSE [err |-> Nil,
          table |-> table \cup
              { [id |-> result.id, asset_id |-> result.assetID,
                 created_at |-> result.createdAt, type |-> result.type,
                 data |-> result.data, finding_hash |-> result.findingHash,
                 agent_id |-> result.agentID] }]

\* findingService.CreateFinding(ctx, opts); uuid is the value uuid.New() returns; tx
\* tells whether the call reached pool.Begin
CreateFinding(table, agentTable, t, ctx, opts, uuid) ==
    LET h == calculateFindingHash(opts.type, opts.data)
        agentInfo == AgentInfo(ctx)
        finding == [id |-> uuid, assetID |-> opts.assetID, createdAt |-> t,
                    type |-> opts.type, data |-> opts.data, findingHash |-> h.hash,
                    agentID |-> agentInfo.agentID]
        put == PutAssetFinding(table, agentTable, finding)
    IN  IF h.err # Nil
        THEN [err |-> h.err, finding |-> {}, table |-> table, tx |-> FALSE]
        ELSE IF agentInfo.err # Nil
        THEN [err |-> agentInfo.err, finding |-> {}, table |-> table, tx |-> FALSE]
        ELSE IF put.err # Nil
        THEN [err |-> put.err, finding |-> {}, table |-> EndTx(put.err, table, put.table),
              tx |-> TRUE]
        ELSE [err |-> Nil, finding |-> { finding }, table |-> EndTx(Nil, table, put.table),
              tx |-> TRUE]

(***************************************************************************)
(* Payloads submitters send.                                               *)
(***************************************************************************)
MaxFields == 3

TypeInputs == { FindingTypePort, FindingTypeVulnerability, "service" }

PairInputs ==
    { [key |-> "port", value |-> v] : v \in { Num(<<"1">>), Num(<<"1", "2">>) } }
    \cup { [key |-> "protocol", value |-> v] :
             v \in { Str(<<"t", "c", "p">>), Num(<<"3">>), Num(<<"2", "3">>) } }
    \cup { [key |-> "template-id", value |-> Str(<<"c", "v", "e">>)] }
    \cup { [key |-> "banner", value |-> Str(<<"s", "s", "h">>)] }

RECURSIVE PayloadsOfLen(_)
PayloadsOfLen(n) ==
    IF n = 0 THEN { <<>> }
    ELSE UNION { { Append(d, kv) :
                     kv \in { x \in PairInputs : \A i \in 1..Len(d) : d[i].key # x.key } } :
                 d \in PayloadsOfLen(n - 1) }

PayloadInputs == UNION { PayloadsOfLen(n) : n \in 0..MaxFields }

\* payloads agents submit to CreateFinding
FindingDataInputs ==
    { << [key |-> "port", value |-> Num(<<"1">>)],
         [key |-> "protocol", value |-> Str(<<"t", "c", "p">>)] >>,
      << [key |-> "protocol", value |-> Str(<<"t", "c", "p">>)],
         [key |-> "port", value |-> Num(<<"1">>)] >>,
      << [key |-> "port", value |-> Num(<<"1">>)] >>,
      << [key |-> "template-id", value |-> Str(<<"c", "v", "e">>)],
         [key |-> "port", value |-> Num(<<"1">>)] >> }

AssetIds == { "asset-1" }

FindingIds == { "f1", "f2" }

\* contexts the middleware hands to a handler: an agent principal or a user principal
ContextInputs(agentTable) ==
    { [RequestContext EXCEPT !.agent = { [agentID |-> g.id] }] : g \in agentTable }
    \cup { [RequestContext EXCEPT !.user =
               { [userID |-> u.id, username |-> u.username, tokenID |-> <<"a">>] }] :
            u \in { x \in UsersTable : x.id = "u1" } }

(***************************************************************************)
(* Credential strings callers present.                                     *)
(***************************************************************************)
Malformed == { <<"a">>, <<"a", ".", "a", ".", "a">> }

CredInputs == { ToTokenString(tc) : tc \in newToken } \cup Malformed

UserIdInputs == { u.id : u \in UsersTable } \cup { "u9" }

AgentNames == { "scanner-1", "scanner-2" }

AuthorizationHeaders ==
    { <<>> } \cup { <<Bearer>> \o c : c \in CredInputs } \cup { <<"a", ".", "a">> }

AgentTokenHeaders == { <<>> } \cup CredInputs

\* the concurrent calls of CreateAgentWithToken the model follows
BootCalls == { 1, 2 }

\* no call of CreateAgentWithToken is running
NoCall ==
    [pc |-> "idle", tokenPlain |-> <<>>, name |-> "", checked |-> FALSE, written |-> {},
     err |-> Nil, agent |-> {}]

NoCalls == [c \in BootCalls |-> NoCall]

\* no request is being served: nothing is kept from one request to the next
NoRequest ==
    [served |-> FALSE, req |-> [authorization |-> <<>>, xAgentToken |-> <<>>],
     status |-> 0, body |-> "", next |-> FALSE, ctx |-> RequestContext, tried |-> <<>>]

NoResult ==
    [op |-> "none", arg |-> None, err |-> Nil, user |-> None, tokenId |-> None,
     token |-> None, tokenString |-> None, finding |-> {}, pre |-> {}, at |-> 0,
     log |-> <<>>, agent |-> {}, users |-> {}, errors |-> {}, tx |-> FALSE]

\* two payloads of one type, and their fingerprints once calculated
NoCalculation ==
    [type |-> "none", a |-> <<>>, b |-> <<>>, done |-> FALSE,
     ra |-> [err |-> Nil, hash |-> <<>>], rb |-> [err |-> Nil, hash |-> <<>>]]

Init ==
    /\ tokens = {}
    /\ agents = {}
    /\ now = 0
    /\ res = NoResult
    /\ mw = NoRequest
    /\ findings = {}
    /\ fp = NoCalculation
    /\ sessions = {}
    /\ boot = NoCalls
    /\ assets = {}
    /\ history = {}

Tick ==
    /\ \E t \in Instants : t > now /\ now' = t
    /\ mw' = NoRequest
    /\ UNCHANGED <<boot, assets, history, sessions, tokens, agents, res, findings, fp>>

IssueTokenStep ==
    /\ Cardinality(tokens) < MaxTokens
    /\ \E uid \in UserIdInputs, o \in Origins, tc \in newToken :
         LET r == CreateSessionToken(tokens, now,
                     [userId |-> uid, userAgent |-> o.userAgent, sourceIP |-> o.sourceIP], tc)
         IN  /\ tokens' = r.table
             /\ res' = [NoResult EXCEPT !.op = "IssueToken", !.arg = uid, !.err = r.err,
                           !.token = r.token, !.tokenString = r.tokenString,
                           !.pre = tokens, !.at = now]
    /\ UNCHANGED <<boot, assets, history, sessions, agents, now, mw, findings, fp>>

ValidateTokenStep ==
    /\ \E c \in CredInputs :
         LET r == ValidateToken(tokens, now, c)
         IN  res' = [NoResult EXCEPT !.op = "ValidateToken", !.arg = c, !.err = r.err,
                        !.user = r.user, !.tokenId = r.tokenId, !.pre = tokens, !.at = now]
    /\ UNCHANGED <<boot, assets, history, sessions, tokens, agents, now, mw, findings, fp>>

RevokeTokenStep ==
    /\ \E c \in CredInputs :
         LET r == RevokeToken(tokens, c)
         IN  /\ tokens' = r.table
             /\ res' = [NoResult EXCEPT !.op = "RevokeToken", !.arg = c, !.err = r.err,
                           !.pre = tokens, !.at = now]
    /\ UNCHANGED <<boot, assets, history, sessions, agents, now, mw, findings, fp>>

IssueAgentStep ==
    /\ Cardinality(agents) < MaxAgents
    /\ \E name \in AgentNames, tc \in newToken :
         LET r == CreateAgent(agents, now, name, tc)
         IN  /\ agents' = r.table
             /\ res' = [NoResult EXCEPT !.op = "IssueAgent", !.arg = name, !.err = r.err,
                           !.agent = IF r.err = Nil THEN { r.agent } ELSE {},
                           !.tokenString = r.tokenString, !.pre = agents, !.at = now]
    /\ mw' = NoRequest
    /\ UNCHANGED <<boot, assets, history, sessions, tokens, now, findings, fp>>

\* one session is open while the middleware is observed
LoginStep ==
    /\ tokens = {}
    /\ \E u \in UsersTable, o \in Origins, tc \in newToken :
         tokens' = CreateSessionToken(tokens, now,
                      [userId |-> u.id, userAgent |-> o.userAgent, sourceIP |-> o.sourceIP],
                      tc).table
    /\ mw' = NoRequest
    /\ UNCHANGED <<boot, assets, history, sessions, agents, now, res, findings, fp>>

\* a request arrives, the middleware answers it; the response is then delivered
RequestStep ==
    /\ ~mw.served
    /\ \E h \in AuthorizationHeaders, x \in AgentTokenHeaders :
         LET r == [authorization |-> h, xAgentToken |-> x]
             out == OnRequest(tokens, agents, now, r)
         IN  mw' = [served |-> TRUE, req |-> r, status |-> out.status, body |-> out.body,
                    next |-> out.next,
                    ctx |-> out.ctx, tried |-> out.tried]
    /\ UNCHANGED <<boot, assets, history, sessions, tokens, agents, now, res, findings, fp>>

RespondStep ==
    /\ mw.served
    /\ mw' = NoRequest
    /\ UNCHANGED <<boot, assets, history, sessions, tokens, agents, now, res, findings, fp>>

\* names the operator gives the bootstrapped agent; main passes "Default"
BootstrapNames == { "Default" } \cup AgentNames

BootstrapAgentStep ==
    /\ \E c \in CredInputs, name \in BootstrapNames :
         LET r == CreateAgentWithToken(agents, now, c, name)
         IN  /\ Cardinality(r.table) <= MaxAgents
             /\ agents' = r.table
             /\ res' = [NoResult EXCEPT !.op = "BootstrapAgent",
                           !.arg = [tokenPlain |-> c, name |-> name], !.err = r.err,
                           !.agent = r.agent, !.pre = agents, !.at = now]
    /\ UNCHANGED <<boot, assets, history, sessions, tokens, now, mw, findings, fp>>

(***************************************************************************)
(* The token codec on its own: strings given to parseTokenString, and       *)
(* tokens newToken generates, formatted and parsed back.                    *)
(***************************************************************************)
MaxStringLen == 4

CodecAlphabet == { "a", "b", Sep }

RECURSIVE StringsOfLen(_)
StringsOfLen(n) ==
    IF n = 0 THEN { <<>> }
    ELSE { Append(w, c) : w \in StringsOfLen(n - 1), c \in CodecAlphabet }

TokenStringInputs == UNION { StringsOfLen(n) : n \in 0..MaxStringLen }

InitCodec ==
    /\ tokens = {}
    /\ agents = {}
    /\ now = 0
    /\ mw = NoRequest
    /\ findings = {}
    /\ fp = NoCalculation
    /\ sessions = {}
    /\ boot = NoCalls
    /\ assets = {}
    /\ history = {}
    /\ res \in { [NoResult EXCEPT !.op = "input", !.arg = str,
                                   !.token = [id |-> <<>>, secret |-> <<>>]] :
                  str \in TokenStringInputs }
               \cup { [NoResult EXCEPT !.op = "newToken", !.arg = <<>>, !.token = tc] :
                        tc \in newToken }

ParseStep ==
    /\ res.op = "input"
    /\ LET p == parseTokenString(res.arg)
       IN  res' = [res EXCEPT !.op = "parseTokenString", !.err = p.err,
                              !.token = [id |-> p.id, secret |-> p.secret]]
    /\ UNCHANGED <<boot, assets, history, sessions, tokens, agents, now, mw, findings, fp>>

FormatStep ==
    /\ res.op = "newToken"
    /\ res' = [res EXCEPT !.op = "ToTokenString", !.arg = ToTokenString(res.token)]
    /\ UNCHANGED <<boot, assets, history, sessions, tokens, agents, now, mw, findings, fp>>

\* the formatted string is parsed, and the parsed pair formatted again
RoundTripStep ==
    /\ res.op = "ToTokenString"
    /\ LET p == parseTokenString(res.arg)
       IN  res' = [res EXCEPT !.op = "roundtrip", !.err = p.err,
                              !.token = [id |-> p.id, secret |-> p.secret],
                              !.tokenString = ToTokenString([id |-> p.id, secret |-> p.secret])]
    /\ UNCHANGED <<boot, assets, history, sessions, tokens, agents, now, mw, findings, fp>>

NextCodec == ParseStep \/ FormatStep \/ RoundTripStep

SpecCodec == InitCodec /\ [][NextCodec]_vars

\* an operator deletes an agent; its findings go with it (on delete cascade)
DeleteAgentStep ==
    /\ \E id \in IdStrings :
         LET r == DeleteAgent(agents, id)
         IN  /\ agents' = r.table
             /\ findings' = IF r.err = Nil
                             THEN { f \in findings : f.agent_id # id }
                             ELSE findings
             /\ res' = [NoResult EXCEPT !.op = "DeleteAgent", !.arg = id, !.err = r.err,
                           !.agent = r.agent, !.pre = agents, !.at = now]
    /\ mw' = NoRequest
    /\ UNCHANGED <<boot, assets, history, sessions, tokens, now, fp>>

ValidateAgentTokenStep ==
    /\ \E c \in CredInputs :
         LET r == ValidateAgentToken(agents, c)
         IN  res' = [NoResult EXCEPT !.op = "ValidateAgentToken", !.arg = c, !.err = r.err,
                        !.agent = IF r.err = Nil THEN { r.agent } ELSE {},
                        !.pre = agents, !.at = now]
    /\ UNCHANGED <<boot, assets, history, sessions, tokens, agents, now, mw, findings, fp>>

\* a call of CreateAgent with any name, also one that is taken
CreateAgentStep ==
    /\ \E name \in AgentNames, tc \in newToken :
         LET r == CreateAgent(agents, now, name, tc)
         IN  /\ Cardinality(r.table) <= MaxAgents
             /\ agents' = r.table
             /\ res' = [NoResult EXCEPT !.op = "CreateAgent",
                           !.arg = [name |-> name, tc |-> tc], !.err = r.err,
                           !.agent = IF r.err = Nil THEN { r.agent } ELSE {},
                           !.pre = agents, !.at = now]
    /\ mw' = NoRequest
    /\ UNCHANGED <<boot, assets, history, sessions, tokens, now, findings, fp>>

NextAgentAuth == Tick \/ CreateAgentStep \/ DeleteAgentStep \/ ValidateAgentTokenStep

SpecAgentAuth == Init /\ [][NextAgentAuth]_vars

NextAgent == IssueTokenStep \/ IssueAgentStep \/ BootstrapAgentStep

SpecAgent == Init /\ [][NextAgent]_vars

\* the login form: a username and a password
UsernameInputs == { u.username : u \in UsersTable } \cup { "mallory" }

PasswordInputs == { <<"a", "d", "m", "i", "n">>, <<"b", "o", "b">>, <<"x">> }

CheckCredentialsStep ==
    /\ \E conn \in Connections, username \in UsernameInputs, password \in PasswordInputs :
         LET r == CheckUsernamePassword(conn, username, password)
         IN  res' = [NoResult EXCEPT !.op = "CheckUsernamePassword",
                        !.arg = [username |-> username, password |-> password,
                                 conn |-> conn],
                        !.err = r.err, !.users = r.user, !.at = now]
    /\ UNCHANGED <<boot, assets, history, sessions, tokens, agents, now, mw, findings, fp>>

\* a login opens a session; the cookie carries the session token
CreateSessionStep ==
    /\ Cardinality(sessions) < MaxTokens
    /\ \E uid \in UserIdInputs, o \in Origins, token \in SessionIds :
         LET r == CreateSession(sessions, now,
                     [userId |-> uid, userAgent |-> o.userAgent, sourceIP |-> o.sourceIP],
                     token)
         IN  /\ sessions' = r.table
             /\ res' = [NoResult EXCEPT !.op = "CreateSession", !.arg = uid, !.err = r.err,
                           !.pre = sessions, !.at = now, !.log = r.log]
    /\ UNCHANGED <<boot, assets, history, tokens, agents, now, mw, findings, fp>>

\* a request presents a session token
ValidateSessionStep ==
    /\ \E conn \in Connections, token \in SessionIds \cup { "s9" } :
         LET r == ValidateSession(conn, sessions, token)
         IN  res' = [NoResult EXCEPT !.op = "ValidateSession",
                        !.arg = [token |-> token, conn |-> conn], !.err = r.err,
                        !.users = r.user, !.pre = sessions, !.at = now, !.log = r.log]
    /\ UNCHANGED <<boot, assets, history, sessions, tokens, agents, now, mw, findings, fp>>

NextSession == Tick \/ CreateSessionStep \/ ValidateSessionStep

SpecSession == Init /\ [][NextSession]_vars

\* the session-based calls of the auth service, on a connection that may fail
NextAuthCalls == CreateSessionStep \/ ValidateSessionStep \/ CheckCredentialsStep

SpecAuthCalls == Init /\ [][NextAuthCalls]_vars

NextAuth ==
    Tick \/ IssueTokenStep \/ ValidateTokenStep \/ RevokeTokenStep \/ CheckCredentialsStep

SpecAuth == Init /\ [][NextAuth]_vars

CreateFindingStep ==
    /\ res.op = "none"
    /\ Cardinality(findings) < MaxFindings
    /\ \E ctx \in ContextInputs(agents), ty \in TypeInputs, d \in FindingDataInputs,
          asset \in AssetIds, uuid \in FindingIds :
         LET opts == [assetID |-> asset, type |-> ty, data |-> d]
             r == CreateFinding(findings, agents, now, ctx, opts, uuid)
         IN  /\ findings' = r.table
             /\ res' = [NoResult EXCEPT !.op = "CreateFinding",
                           !.arg = [ctx |-> ctx, opts |-> opts], !.err = r.err,
                           !.finding = r.finding, !.pre = findings, !.at = now,
                           !.tx = r.tx]
    /\ UNCHANGED <<boot, assets, history, sessions, tokens, agents, now, mw, fp>>

\* the handler has written the response
ReturnStep ==
    /\ res.op # "none"
    /\ res' = NoResult
    /\ UNCHANGED <<boot, assets, history, sessions, tokens, agents, now, mw, findings, fp>>

NextFinding == IssueAgentStep \/ CreateFindingStep \/ ReturnStep

SpecFinding == Init /\ [][NextFinding]_vars

InitFp ==
    /\ tokens = {}
    /\ agents = {}
    /\ now = 0
    /\ res = NoResult
    /\ mw = NoRequest
    /\ findings = {}
    /\ fp \in { [NoCalculation EXCEPT !.type = ty, !.a = a, !.b = b] :
                  ty \in TypeInputs, a \in PayloadInputs, b \in PayloadInputs }
    /\ sessions = {}
    /\ boot = NoCalls
    /\ assets = {}
    /\ history = {}

CalculateStep ==
    /\ ~fp.done
    /\ fp' = [fp EXCEPT !.done = TRUE,
                        !.ra = calculateFindingHash(fp.type, fp.a),
                        !.rb = calculateFindingHash(fp.type, fp.b)]
    /\ UNCHANGED <<boot, assets, history, sessions, tokens, agents, now, res, mw, findings>>

NextFp == CalculateStep

SpecFp == InitFp /\ [][NextFp]_vars

\* fields handed to ValidateStruct: each names a field of the request struct once
MaxRules == 2
MaxFieldRules == 2

FieldNames == { "Username", "Password" }

ValueInputs == { <<>>, <<"a", "b">>, <<"a", "b", "c", "d">> }

RuleInputs == { Required, Length(3, 20), Length(AnyLength, 3) }

RuleLists == UNION { [1..n -> RuleInputs] : n \in 0..MaxRules }

FieldRulesInputs ==
    { [FieldName |-> name, Value |-> v, Rules |-> rules] :
        name \in FieldNames, v \in ValueInputs, rules \in RuleLists }

FieldsInputs ==
    { fs \in UNION { [1..n -> FieldRulesInputs] : n \in 0..MaxFieldRules } :
        \A i, j \in 1..Len(fs) : fs[i].FieldName = fs[j].FieldName => i = j }

InitValidate ==
    /\ tokens = {}
    /\ agents = {}
    /\ now = 0
    /\ mw = NoRequest
    /\ findings = {}
    /\ fp = NoCalculation
    /\ sessions = {}
    /\ boot = NoCalls
    /\ assets = {}
    /\ history = {}
    /\ res \in { [NoResult EXCEPT !.op = "fields", !.arg = fs] : fs \in FieldsInputs }

ValidateStep ==
    /\ res.op = "fields"
    /\ LET r == ValidateStruct(res.arg)
       IN  res' = [res EXCEPT !.op = "ValidateStruct", !.err = r.err, !.errors = r.errors]
    /\ UNCHANGED <<boot, assets, history, sessions, tokens, agents, now, mw, findings, fp>>

NextValidate == ValidateStep

SpecValidate == InitValidate /\ [][NextValidate]_vars

(***************************************************************************)
(* CreateAgentWithToken, statement by statement, for calls that overlap.   *)
(* Each call runs in its own transaction at READ COMMITTED: it reads the   *)
(* committed rows, and its INSERT waits for a transaction that has written *)
(* a row with the same key until that transaction ends.                    *)
(***************************************************************************)
BootCreds == { ToTokenString(tc) : tc \in { t \in newToken : t.secret = <<"a">> } }
              \cup { <<"a">> }

\* parseTokenString, then pool.Begin
BootBeginStep(c) ==
    /\ boot[c].pc = "idle"
    /\ \E tokenPlain \in BootCreds, name \in { "Default", "scanner-1" } :
         LET tokenComponents == parseTokenString(tokenPlain)
         IN  boot' = [boot EXCEPT ![c] =
                IF tokenComponents.err # Nil
                THEN [NoCall EXCEPT !.pc = "done", !.tokenPlain = tokenPlain, !.name = name,
                                    !.err = "invalid token format"]
                ELSE [NoCall EXCEPT !.pc = "begun", !.tokenPlain = tokenPlain,
                                    !.name = name]]
    /\ UNCHANGED <<tokens, agents, now, res, mw, findings, fp, sessions, assets, history>>

\* s.repo.GetAgent: an agent that exists is returned and the transaction commits
BootGetAgentStep(c) ==
    /\ boot[c].pc = "begun"
    /\ LET existingAgent == GetAgent(agents, parseTokenString(boot[c].tokenPlain).id)
       IN  boot' = [boot EXCEPT ![c] =
              IF existingAgent.err # Nil /\ existingAgent.err # ErrNotFound
              THEN [@ EXCEPT !.pc = "done", !.err = existingAgent.err]
              ELSE IF existingAgent.err = Nil
              THEN [@ EXCEPT !.pc = "done", !.agent = { existingAgent.agent }]
              ELSE [@ EXCEPT !.pc = "checked", !.checked = TRUE]]
    /\ UNCHANGED <<tokens, agents, now, res, mw, findings, fp, sessions, assets, history>>

\* s.repo.CreateAgent: the INSERT proceeds once no other open transaction holds a
\* row it conflicts with; on an error the call returns it and rolls back
BootInsertStep(c) ==
    /\ boot[c].pc = "checked"
    /\ LET tokenComponents == parseTokenString(boot[c].tokenPlain)
           agent == [id |-> tokenComponents.id, name |-> boot[c].name,
                     tokenHash |-> CalculateArgonHash(tokenComponents.secret),
                     createdAt |-> now]
           open == UNION { boot[d].written : d \in BootCalls \ { c } }
           created == RepoCreateAgent(agents, agent)
       IN  /\ RepoCreateAgent(open, agent).err = Nil
           /\ boot' = [boot EXCEPT ![c] =
                 IF created.err # Nil
                 THEN [@ EXCEPT !.pc = "done", !.err = created.err]
                 ELSE [@ EXCEPT !.pc = "inserted", !.written = created.table \ agents,
                                !.agent = { agent }]]
    /\ UNCHANGED <<tokens, agents, now, res, mw, findings, fp, sessions, assets, history>>

\* return &agent, nil; the deferred function commits
BootCommitStep(c) ==
    /\ boot[c].pc = "inserted"
    /\ agents' = agents \cup boot[c].written
    /\ boot' = [boot EXCEPT ![c] = [@ EXCEPT !.pc = "done", !.written = {}]]
    /\ UNCHANGED <<tokens, now, res, mw, findings, fp, sessions, assets, history>>

NextBoot ==
    \E c \in BootCalls :
        BootBeginStep(c) \/ BootGetAgentStep(c) \/ BootInsertStep(c) \/ BootCommitStep(c)

SpecBoot == Init /\ [][NextBoot]_vars

(***************************************************************************)
(* Requests that create assets, from users and from agents.                *)
(***************************************************************************)
MaxAssets == 2

Endpoints == { "10.0.0.1", "10.0.0.2" }

AssetUuids == { "as1", "as2" }

HistoryUuids == { "h1", "h2" }

CreateAssetStep ==
    /\ \E ctx \in ContextInputs(agents), endpoint \in Endpoints, id \in AssetUuids,
          hid \in HistoryUuids, c1 \in Connections, c2 \in Connections :
         LET r == CreateAsset(assets, history, now, ctx, endpoint, <<id, hid>>, <<c1, c2>>)
         IN  /\ Cardinality(r.assets) <= MaxAssets
             /\ assets' = r.assets
             /\ history' = r.history
             /\ res' = [NoResult EXCEPT !.op = "CreateAsset",
                           !.arg = [ctx |-> ctx, endpoint |-> endpoint, id |-> id,
                                    conns |-> <<c1, c2>>],
                           !.err = r.err, !.at = now,
                           !.pre = { [assets |-> assets, history |-> history] }]
    /\ UNCHANGED <<boot, tokens, agents, now, mw, findings, fp, sessions>>

NextAsset == IssueAgentStep \/ CreateAssetStep

SpecAsset == Init /\ [][NextAsset]_vars

NextMw == Tick \/ LoginStep \/ IssueAgentStep \/ RequestStep \/ RespondStep

SpecMw == Init /\ [][NextMw]_vars

(***************************************************************************)
(* Properties.                                                             *)
(***************************************************************************)
\* the header carries "Bearer " and the credential string of a live token
LiveTokenRow(table, t, cred) ==
    { r \in table : /\ cred = r.id \o <<Sep>> \o r.hash.argon2id
                    /\ ~r.revoked
                    /\ t < r.expires_at
                    /\ \E u \in UsersTable : u.id = r.user_id }

ValidUserHeader(h) ==
    /\ h # <<>>
    /\ Head(h) = Bearer
    /\ LiveTokenRow(tokens, now, Tail(h)) # {}

AgentRowOf(table, cred) ==
    { g \in table : cred = g.id \o <<Sep>> \o g.auth_token_hash.argon2id }

ValidAgentHeader(x) == x # <<>> /\ AgentRowOf(agents, x) # {}

\* C1: a served request with a valid user token and a valid agent credential is
\* passed on with the User principal of the token's owner attached; the agent path
\* is not evaluated and no Agent principal is attached
C1_UserPrecedence ==
    (mw.served /\ ValidUserHeader(mw.req.authorization)
               /\ ValidAgentHeader(mw.req.xAgentToken))
    => /\ mw.next
       /\ mw.status # StatusUnauthorized
       /\ mw.tried = <<"user">>
       /\ mw.ctx.agent = {}
       /\ mw.ctx.user =
            { [userID |-> r.user_id,
               username |-> (CHOOSE u \in UsersTable : u.id = r.user_id).username,
               tokenID |-> r.id] :
              r \in LiveTokenRow(tokens, now, Tail(mw.req.authorization)) }

C1_Witness ==
    /\ mw.served
    /\ ValidUserHeader(mw.req.authorization)
    /\ ValidAgentHeader(mw.req.xAgentToken)
    /\ mw.next

\* C2: a served request with neither a valid user token nor a valid agent
\* credential is answered 401 and never reaches the downstream handler
C2_FallbackRejection ==
    (mw.served /\ ~ValidUserHeader(mw.req.authorization)
               /\ ~ValidAgentHeader(mw.req.xAgentToken))
    => /\ mw.status = StatusUnauthorized
       /\ ~mw.next
       /\ mw.ctx = RequestContext

\* an invalid user token and no agent header, rejected
C2_Witness ==
    /\ mw.served
    /\ mw.req.authorization # <<>>
    /\ ~ValidUserHeader(mw.req.authorization)
    /\ mw.req.xAgentToken = <<>>
    /\ tokens # {}
    /\ mw.status = StatusUnauthorized

\* C4: RevokeToken with the credential string of an existing, non-revoked token
\* reports success and leaves the token's row revoked
C4_RevokeMarksRevoked ==
    (res.op = "RevokeToken"
       /\ \E r \in res.pre : res.arg = r.id \o <<Sep>> \o r.hash.argon2id /\ ~r.revoked)
    => /\ res.err = Nil
       /\ \E r \in tokens : res.arg = r.id \o <<Sep>> \o r.hash.argon2id /\ r.revoked

Recognized(ty) == ty \in { FindingTypePort, FindingTypeVulnerability }

FieldsOf(ty) == { RequiredFields(ty)[i] : i \in 1..Len(RequiredFields(ty)) }

HasKey(data, field) == \E i \in 1..Len(data) : data[i].key = field

\* C7: two payloads of a recognized type that agree on the type's required fields
\* have the same fingerprint, whatever their key order and their other fields
C7_FingerprintOfRequiredFields ==
    (fp.done /\ Recognized(fp.type)
       /\ \A f \in FieldsOf(fp.type) : Lookup(fp.a, f) = Lookup(fp.b, f))
    => fp.ra = fp.rb

C7_Witness ==
    /\ fp.done
    /\ fp.type = FindingTypePort
    /\ \A f \in FieldsOf(fp.type) :
         HasKey(fp.a, f) /\ HasKey(fp.b, f) /\ Lookup(fp.a, f) = Lookup(fp.b, f)
    /\ Len(fp.a) = 2 /\ fp.a[1].key = "port"
    /\ Len(fp.b) = 3 /\ fp.b[1].key = "protocol" /\ fp.b[3].key = "port"
    /\ fp.ra.err = Nil
    /\ fp.ra.hash = fp.rb.hash

\* C8: two payloads of a recognized type that differ in a required field have
\* different fingerprints
C8_DifferentFieldsDifferentFingerprint ==
    (fp.done /\ Recognized(fp.type) /\ fp.ra.err = Nil /\ fp.rb.err = Nil
       /\ \E f \in FieldsOf(fp.type) : Lookup(fp.a, f) # Lookup(fp.b, f))
    => fp.ra.hash # fp.rb.hash

\* C9: the calculation fails, and returns no fingerprint, when the (non-empty)
\* payload lacks a required field of its type
C9_MissingFieldFails ==
    (fp.done /\ Recognized(fp.type) /\ fp.a # <<>>
       /\ \E f \in FieldsOf(fp.type) : ~HasKey(fp.a, f))
    => fp.ra.err # Nil /\ fp.ra.hash = <<>>

\* C10: CreateFinding with a type other than "port" and "vulnerability" fails,
\* produces no fingerprint and stores no finding
C10_UnknownTypeFailsClosed ==
    (res.op = "CreateFinding" /\ ~Recognized(res.arg.opts.type))
    => /\ res.err # Nil
       /\ res.finding = {}
       /\ findings = res.pre
       /\ calculateFindingHash(res.arg.opts.type, res.arg.opts.data).hash = <<>>

C10_Witness ==
    /\ res.op = "CreateFinding"
    /\ ~Recognized(res.arg.opts.type)
    /\ res.arg.ctx.agent # {}
    /\ res.err # Nil

\* C11: the stored findings hold at most one record per logical observation
\* (asset, type, fingerprint), however often it is submitted
C11_OneRecordPerObservation ==
    \A f \in findings, g \in findings :
        (f.asset_id = g.asset_id /\ f.type = g.type /\ f.finding_hash = g.finding_hash)
        => f = g

\* C12: CreateAgentWithToken with a credential whose public id belongs to an agent
\* returns that agent and leaves the agents table as it was; repeating a call that
\* succeeded returns the same agent id and adds no record
C12_BootstrapIdempotent ==
    res.op = "BootstrapAgent"
    => LET tc == parseTokenString(res.arg.tokenPlain)
           again == CreateAgentWithToken(agents, now, res.arg.tokenPlain, res.arg.name)
       IN  /\ (tc.err = Nil /\ \E g \in res.pre : g.id = tc.id)
                => /\ res.err = Nil
                   /\ agents = res.pre
                   /\ res.agent = { GetAgent(res.pre, tc.id).agent }
           /\ res.err = Nil
                => /\ again.err = Nil
                   /\ { a.id : a \in again.agent } = { a.id : a \in res.agent }
                   /\ again.table = agents
                   /\ Cardinality({ g \in agents : g.id = tc.id }) = 1

\* the bootstrap is repeated with another name and another secret for an id in use
C12_Witness ==
    /\ res.op = "BootstrapAgent"
    /\ res.err = Nil
    /\ \E g \in res.pre : /\ g.id = parseTokenString(res.arg.tokenPlain).id
                          /\ g.name # res.arg.name
                          /\ g.auth_token_hash #
                               CalculateArgonHash(parseTokenString(res.arg.tokenPlain).secret)
    /\ agents = res.pre

\* a string that splits on the separator into exactly two non-empty parts
WellFormed(str) ==
    /\ Cardinality({ i \in 1..Len(str) : str[i] = Sep }) = 1
    /\ str[1] # Sep
    /\ str[Len(str)] # Sep

\* C13: parseTokenString fails for every string that is not two non-empty parts
\* around one separator
C13_ParseRejectsMalformed ==
    (res.op = "parseTokenString" /\ ~WellFormed(res.arg)) => res.err # Nil

\* C14: a string the codec generated parses, and formatting the parsed pair gives
\* the string back
C14_RoundTrip ==
    res.op = "roundtrip" => (res.err = Nil /\ res.tokenString = res.arg)

C14_Witness ==
    /\ res.op = "roundtrip"
    /\ res.err = Nil
    /\ res.token.id # res.token.secret
    /\ res.arg = res.token.id \o <<Sep>> \o res.token.secret

C16_ExactlyOnePrincipal ==
    (mw.served /\ mw.next)
    => /\ Cardinality(mw.ctx.user) + Cardinality(mw.ctx.agent) = 1
       /\ mw.status # StatusUnauthorized

\* both headers are valid and one principal is attached
C16_Witness ==
    /\ mw.served
    /\ mw.next
    /\ ValidUserHeader(mw.req.authorization)
    /\ ValidAgentHeader(mw.req.xAgentToken)
    /\ Cardinality(mw.ctx.user) = 1
    /\ mw.ctx.agent = {}

\* C17: the agent path is evaluated exactly when the user path did not succeed, and
\* a request whose user path fails but whose agent credential is valid is passed
\* on with the Agent principal of that credential attached
C17_AgentPathAfterUserPath ==
    mw.served
    => /\ (\E i \in 1..Len(mw.tried) : mw.tried[i] = "agent")
            <=> ~ValidUserHeader(mw.req.authorization)
       /\ (~ValidUserHeader(mw.req.authorization) /\ ValidAgentHeader(mw.req.xAgentToken))
            => /\ mw.next
               /\ mw.ctx.user = {}
               /\ mw.ctx.agent =
                    { [agentID |-> g.id] : g \in AgentRowOf(agents, mw.req.xAgentToken) }

\* the Authorization header lacks the "Bearer " prefix, the agent credential is valid
C17_Witness ==
    /\ mw.served
    /\ mw.req.authorization # <<>>
    /\ Head(mw.req.authorization) # Bearer
    /\ ValidAgentHeader(mw.req.xAgentToken)
    /\ mw.next
    /\ Cardinality(mw.ctx.agent) = 1
    /\ tokens # {}

\* C18: CheckUsernamePassword reports Unauthenticated for an unknown username and
\* for a password that does not verify, never NotFound, and returns a user only
\* when the password verifies against that user's stored hash
C18_CheckCredentials ==
    (res.op = "CheckUsernamePassword" /\ res.arg.conn = Nil)
    => LET known == { u \in UsersTable : u.username = res.arg.username }
           verified == { u \in known :
                           ValidatePasswordWithArgonHash(res.arg.password, u.password) }
       IN  /\ known = {} => (res.err = ErrUnauthenticated /\ res.users = {})
           /\ (/\ known # {} /\ verified = {}
               /\ \A u \in known :
                    ValidatePasswordWithArgonHashErr(res.arg.password, u.password) = Nil)
                => (res.err = ErrUnauthenticated /\ res.users = {})
           /\ res.err # ErrNotFound
           /\ res.users \subseteq verified
           /\ res.err = Nil <=> res.users # {}

\* an unknown username, given the password of a user that exists
C18_Witness ==
    /\ res.op = "CheckUsernamePassword"
    /\ res.arg.conn = Nil
    /\ \A u \in UsersTable : u.username # res.arg.username
    /\ \E u \in UsersTable : ValidatePasswordWithArgonHash(res.arg.password, u.password)
    /\ res.err = ErrUnauthenticated

\* C19: no token row and no agent row holds the secret of a credential: the hash
\* column holds the hasher's output, for an issued token that of its secret
C19_OnlyHashesStored ==
    /\ \A r \in tokens :
         /\ \A x \in SecretStrings : r.hash # Unhashed(x)
         /\ \E x \in SecretStrings : r.hash = CalculateArgonHash(x)
    /\ \A g \in agents :
         /\ \A x \in SecretStrings : g.auth_token_hash # Unhashed(x)
         /\ \E x \in SecretStrings : g.auth_token_hash = CalculateArgonHash(x)
    /\ (res.op = "IssueToken" /\ res.err = Nil)
       => \E r \in tokens :
            /\ r.id = parseTokenString(res.tokenString).id
            /\ r.hash = CalculateArgonHash(parseTokenString(res.tokenString).secret)
    /\ (res.op = "BootstrapAgent" /\ res.err = Nil /\ res.pre = {})
       => \E g \in agents :
            /\ g.id = parseTokenString(res.arg.tokenPlain).id
            /\ g.auth_token_hash =
                 CalculateArgonHash(parseTokenString(res.arg.tokenPlain).secret)

\* tokens were issued and the agent was created by the bootstrap
C19_Witness ==
    /\ tokens # {}
    /\ res.op = "BootstrapAgent"
    /\ res.err = Nil
    /\ res.pre = {}
    /\ agents # {}

\* C20: no entry a call writes to the log carries the credential of a session
C20_CredentialNeverLogged ==
    \A i \in 1..Len(res.log) :
        \A j \in 1..Len(res.log[i].args) :
            res.log[i].args[j] \notin { x.token : x \in sessions }

\* C21: ValidateAgentToken succeeds, at whatever time, exactly when an agent row
\* has the credential's public id and the hash of its secret; once DeleteAgent has
\* removed the row the credential is Unauthenticated
C21_AgentCredentialUntilDeleted ==
    /\ res.op = "ValidateAgentToken"
       => /\ res.err = Nil <=> AgentRowOf(res.pre, res.arg) # {}
          /\ res.err # Nil => res.err = ErrUnauthenticated
    /\ (res.op = "DeleteAgent" /\ res.err = Nil)
       => \A a \in res.agent :
            /\ \A g \in agents : g.id # a.id
            /\ ValidateAgentToken(agents, a.id \o <<Sep>> \o a.tokenHash.argon2id).err
                 = ErrUnauthenticated

\* the credential is accepted a token lifetime after the agent was created
C21_Witness ==
    /\ res.op = "ValidateAgentToken"
    /\ res.err = Nil
    /\ res.at = TokenLifetime
    /\ \E g \in AgentRowOf(res.pre, res.arg) : g.created_at = 0

\* C22: every request the middleware rejects gets the same response, 401 with the
\* body "unauthorized" and no principal, whatever made the credentials fail
C22_UniformRejection ==
    (mw.served /\ ~mw.next)
    => /\ mw.status = StatusUnauthorized
       /\ mw.body = Unauthorized
       /\ mw.ctx = RequestContext

\* rejected: the user token is expired and the agent credential has a wrong secret
C22_Witness ==
    /\ mw.served /\ ~mw.next
    /\ mw.req.authorization # <<>> /\ Head(mw.req.authorization) = Bearer
    /\ \E r \in tokens :
         /\ Tail(mw.req.authorization) = r.id \o <<Sep>> \o r.hash.argon2id
         /\ ~r.revoked /\ now >= r.expires_at
    /\ \E g \in agents, tc \in newToken :
         /\ tc.id = g.id /\ CalculateArgonHash(tc.secret) # g.auth_token_hash
         /\ mw.req.xAgentToken = ToTokenString(tc)

C24_DuplicateNameConflict ==
    (res.op = "CreateAgent" /\ \E g \in res.pre : g.name = res.arg.name)
    => /\ res.err = ErrUniqueViolation
       /\ res.err # ErrUnauthenticated
       /\ res.agent = {}
       /\ agents = res.pre

\* the name is taken by an agent with another id
C24_Witness ==
    /\ res.op = "CreateAgent"
    /\ \E g \in res.pre : g.name = res.arg.name /\ g.id # res.arg.tc.id
    /\ res.err = ErrUniqueViolation

\* the rules of a field that fail on its value, by position
FailingRules(field) ==
    { j \in 1..Len(field.Rules) : ApplyRule(field.Rules[j], field.Value) # {} }

\* C25: the error map of ValidateStruct has exactly the fields with a failing rule,
\* each once and with the error of the first of its rules that fails; the result is
\* nil exactly when no rule of any field fails
C25_FirstFailingRulePerField ==
    res.op = "ValidateStruct"
    => LET failed == { i \in 1..Len(res.arg) : FailingRules(res.arg[i]) # {} }
       IN  /\ { e.field : e \in res.errors } = { res.arg[i].FieldName : i \in failed }
           /\ Cardinality(res.errors) = Cardinality(failed)
           /\ \A i \in failed :
                LET first == CHOOSE j \in FailingRules(res.arg[i]) :
                                \A k \in FailingRules(res.arg[i]) : j <= k
                IN  \E e \in res.errors :
                      /\ e.field = res.arg[i].FieldName
                      /\ { e.err } = ApplyRule(res.arg[i].Rules[first], res.arg[i].Value)
           /\ res.err = Nil <=> failed = {}

\* one field passes its rules, the other fails two rules with different errors
C25_Witness ==
    /\ res.op = "ValidateStruct"
    /\ Len(res.arg) = 2
    /\ FailingRules(res.arg[1]) = {}
    /\ Len(res.arg[1].Rules) > 0
    /\ FailingRules(res.arg[2]) = { 1, 2 }
    /\ ApplyRule(res.arg[2].Rules[1], res.arg[2].Value)
         # ApplyRule(res.arg[2].Rules[2], res.arg[2].Value)
    /\ Cardinality(res.errors) = 1

\* C26: no step of the auth service removes a token row or changes one otherwise
\* than by setting revoked: every row is in the next state as it was, or with
\* revoked set to true, and a row that is revoked stays revoked
C26_TokenRowsOnlyRevoked ==
    [][\A r \in tokens :
         /\ \E q \in tokens' : q = r \/ (~r.revoked /\ q = [r EXCEPT !.revoked = TRUE])
         /\ \A q \in tokens' : (q.id = r.id /\ r.revoked) => q.revoked]_vars

\* RevokeToken was called with the credential of a row, and the row is in the table
C26_Witness ==
    /\ res.op = "RevokeToken"
    /\ \E r \in tokens : res.arg = r.id \o <<Sep>> \o r.hash.argon2id
    /\ Cardinality(tokens) = Cardinality(res.pre)

\* C27: when the stored password hash of the user is malformed, so that the hasher
\* returns an error, CheckUsernamePassword answers Unauthenticated
C27_MalformedHashUnauthenticated ==
    (/\ res.op = "CheckUsernamePassword"
     /\ res.arg.conn = Nil
     /\ \E u \in UsersTable :
          /\ u.username = res.arg.username
          /\ ValidatePasswordWithArgonHashErr(res.arg.password, u.password) # Nil)
    => (res.err = ErrUnauthenticated /\ res.users = {})

\* C28: no two committed agent rows share an id; of the overlapping calls of
\* CreateAgentWithToken with one credential string that all found no agent, one
\* creates the row and every other returns an error
C28_ConcurrentBootstrapOneRow ==
    /\ \A g, h \in agents : g.id = h.id => g = h
    /\ \A c, d \in BootCalls :
         (/\ c # d
          /\ boot[c].pc = "done" /\ boot[d].pc = "done"
          /\ boot[c].checked /\ boot[d].checked
          /\ boot[c].tokenPlain = boot[d].tokenPlain)
         => /\ boot[c].err = Nil \/ boot[d].err = Nil
            /\ boot[c].err # Nil \/ boot[d].err # Nil
            /\ Cardinality({ g \in agents :
                               g.id = parseTokenString(boot[c].tokenPlain).id }) = 1

\* both calls found no agent; the second insert failed on the committed row
C28_Witness ==
    /\ boot[1].pc = "done" /\ boot[2].pc = "done"
    /\ boot[1].checked /\ boot[2].checked
    /\ boot[1].tokenPlain = boot[2].tokenPlain
    /\ boot[1].name # boot[2].name
    /\ boot[1].err = Nil
    /\ boot[2].err = ErrUniqueViolation
    /\ Cardinality(agents) = 1

\* C29: CreateFinding on a context without agent info returns an error without
\* opening a transaction and stores nothing; a call that succeeds had agent info, and
\* the row it stored carries the id of that agent
C29_FindingNeedsAgent ==
    res.op = "CreateFinding"
    => /\ res.arg.ctx.agent = {}
          => /\ res.err # Nil
             /\ ~res.tx
             /\ res.finding = {}
             /\ findings = res.pre
       /\ res.err = Nil
          => /\ res.arg.ctx.agent # {}
             /\ \A f \in findings \ res.pre :
                  \A i \in res.arg.ctx.agent : f.agent_id = i.agentID
             /\ findings # res.pre

\* a request authenticated as a user submits a finding whose fingerprint is computed
C29_Witness ==
    /\ res.op = "CreateFinding"
    /\ res.arg.ctx.agent = {}
    /\ res.arg.ctx.user # {}
    /\ calculateFindingHash(res.arg.opts.type, res.arg.opts.data).err = Nil
    /\ res.err = ErrNoAgentInfo

\* C30: every asset record has its "created" history entry; a CreateAsset call that
\* returns an error leaves assets and history as they were, and it returns an error
\* when the context has no user info or the history entry cannot be added
C30_CreateAssetAtomic ==
    /\ \A a \in assets :
         \E h \in history : h.asset_id = a.id /\ h.event_type = ScanAssetEventTypeCreated
    /\ res.op = "CreateAsset"
       => /\ res.err # Nil
             => \A p \in res.pre : assets = p.assets /\ history = p.history
          /\ (res.arg.ctx.user = {} \/ res.arg.conns[2] # Nil) => res.err # Nil

\* an agent's request: the asset row was inserted in the transaction, then UserInfo
\* failed and the insert was rolled back
C30_Witness ==
    /\ res.op = "CreateAsset"
    /\ res.arg.ctx.user = {}
    /\ res.arg.conns = <<Nil, Nil>>
    /\ res.err = ErrNoUserInfo
    /\ \A a \in assets : a.id # res.arg.id /\ a.endpoint # res.arg.endpoint
    /\ assets # {}

====
